---- MODULE Spec2Model ----
(***************************************************************************)
(* Model of the SudokuSolver component of src/app/page.tsx: the constraint *)
(* checker isValid, the pre-search validator validateInitialBoard, the     *)
(* synchronous backtracking search solveInstant, the steppable search      *)
(* solveAnimated (with its recursion made an explicit stack of frames and  *)
(* its two awaited delays made suspension points), and the event handlers  *)
(* of the component.                                                       *)
(***************************************************************************)
EXTENDS Integers, Sequences, FiniteSets, TLC

VARIABLES
    board,      \* useState board: the displayed grid
    initial,    \* useState initial: the grid saved for Reset
    running,    \* useState running
    speedMs,    \* useState speedMs
    highlight,  \* useState highlight ({r, c} or null)
    error,      \* useState error
    success,    \* useState success
    abort,      \* runAbortRef.current.abort
    pc,         \* position of the solveAnimated invocation
    b,          \* solveAnimated: its working copy
    startBoard, \* solveAnimated: its argument
    stack,      \* solveAnimated: the frames of recurse(), innermost last
    cSpeedMs,   \* solveAnimated: the speedMs its closure captured
    timer,      \* the duration of the pending setTimeout, NoTimer if none
    ops,        \* number of user operations performed so far
    call        \* the last direct call of a pure function and its result

vars == <<board, initial, running, speedMs, highlight, error, success, abort,
          pc, b, startBoard, stack, cSpeedMs, timer, ops, call>>

uiVars == <<board, initial, running, speedMs, highlight, error, success, abort>>
runVars == <<pc, b, startBoard, stack, cSpeedMs, timer>>

----------------------------------------------------------------------------
(* Bounds of the model *)

\* user operations explored after the initial state
MaxOps == 3
\* a search is explored from the boards with at most this many empty cells
MaxEmpty == 5

(* Program constants *)

\* side of the grid
N == 9
\* side of a box
BoxN == 3
\* char codes of "1" and "9"
FirstCode == 49
LastCode == 57
\* initial pacing interval, and the upper end of the slider
DefaultSpeed == 40
MaxSpeed == 200
NoTimer == 0 - 1

Idx == 0 .. (N - 1)
Empty == "."
DigitChars == <<"1", "2", "3", "4", "5", "6", "7", "8", "9">>
Digits == {DigitChars[k] : k \in 1 .. 9}
Null == [r |-> 0 - 1, c |-> 0 - 1]

\* String.fromCharCode on the codes the searches use
fromCharCode(code) == DigitChars[code - (FirstCode - 1)]

\* a 9x9 grid from its rows, as written in the source (ex.map(row => row.split("")))
FromRows(rows) == [i \in Idx |-> [j \in Idx |-> rows[i + 1][j + 1]]]

emptyBoard == [i \in Idx |-> [j \in Idx |-> Empty]]

\* b.map((row) => [...row])
cloneBoard(g) == [i \in Idx |-> g[i]]

\* the assignment g[i][j] = v
SetCell(g, i, j, v) == [g EXCEPT ![i][j] = v]

----------------------------------------------------------------------------
(* isValid *)

boxRow(row, i) == BoxN * (row \div BoxN) + (i \div BoxN)
\* boxCol with the column offset taken as the row offset is
boxCol_sameOffset(col, i) == BoxN * (col \div BoxN) + (i \div BoxN)
boxCol(col, i) == BoxN * (col \div BoxN) + (i % BoxN)

\* the loop over i returns false at the first index at which the row, the
\* column or the box holds ch, and true if there is none
isValid(g, row, col, ch) ==
    \A i \in Idx :
        /\ g[row][i] # ch
        /\ g[i][col] # ch
        /\ g[boxRow(row, i)][boxCol(col, i)] # ch

----------------------------------------------------------------------------
(* validateInitialBoard *)

\* the message with the indices as the loops hold them
DupMessage_zeroBased(val, i, j) ==
    "Invalid Sudoku: Duplicate " \o val \o " at row " \o ToString(i)
        \o ", column " \o ToString(j)
\* the message with row and column exchanged
DupMessage_swapped(val, i, j) ==
    "Invalid Sudoku: Duplicate " \o val \o " at row " \o ToString(j + 1)
        \o ", column " \o ToString(i + 1)
DupMessage(val, i, j) ==
    "Invalid Sudoku: Duplicate " \o val \o " at row " \o ToString(i + 1)
        \o ", column " \o ToString(j + 1)
CompleteMessage == "Board is already complete!"
NoSolutionMessage == "No solution exists for this Sudoku puzzle"
AbortedMessage == "Solving aborted by user"

\* the failing return without its b[i][j] = val
restoreOnFail_dropped(g, i, j, val) == g
\* the grid as the failing return leaves it (b[i][j] = val before the return)
restoreOnFail(g, i, j, val) == SetCell(g, i, j, val)
hasEmpty(g) == \E i \in Idx : \E j \in Idx : g[i][j] = Empty

\* the second phase without its already-complete return
validateTail_noCompleteCheck(g) == [valid |-> TRUE, message |-> "", b |-> g]
\* the second phase: the scan for an empty cell and the two returns after it
validateTail(g) ==
    IF ~hasEmpty(g)
    THEN [valid |-> FALSE, message |-> CompleteMessage, b |-> g]
    ELSE [valid |-> TRUE, message |-> "", b |-> g]

\* the test of the first phase at cell k = 9 * i + j: the cell is filled and
\* isValid rejects its value once the cell is emptied.  A cell that passes is
\* written back before the next one is tested (b[i][j] = val), so every test
\* sees the grid as it was passed in but for its own cell.
failsAt(g, k) ==
    LET i == k \div N
        j == k % N
    IN  /\ g[i][j] # Empty
        /\ ~isValid(SetCell(g, i, j, Empty), i, j, g[i][j])

\* the first cell in the row-major scan of the first phase whose test fails,
\* as 9 * i + j; N * N if none
firstFailing(g) ==
    LET F == {k \in 0 .. (N * N - 1) : failsAt(g, k)}
    IN  IF F = {} THEN N * N ELSE CHOOSE k \in F : \A m \in F : k <= m

\* the first phase, and the second phase if no test fails; the result carries
\* the grid as the call leaves it
validateFrom(g, k) ==
    IF k >= N * N THEN validateTail(g)
    ELSE LET i == k \div N
             j == k % N
             val == g[i][j]
         IN  [valid |-> FALSE, message |-> DupMessage(val, i, j),
              b |-> restoreOnFail(SetCell(g, i, j, Empty), i, j, val)]

\* the two phases in the other order
validateInitialBoard_completeFirst(g) ==
    IF ~hasEmpty(g)
    THEN [valid |-> FALSE, message |-> CompleteMessage, b |-> g]
    ELSE validateFrom(g, firstFailing(g))
validateInitialBoard(g) == validateFrom(g, firstFailing(g))

----------------------------------------------------------------------------
(* solveInstant *)

\* the scan with its inner loop one column short
firstEmpty_shortRow(g) ==
    LET E == {k \in 0 .. (N * N - 1) :
                 k % N < N - 1 /\ g[k \div N][k % N] = Empty}
    IN  IF E = {} THEN N * N ELSE CHOOSE k \in E : \A m \in E : k <= m
\* the first empty cell in the row-major scan, as 9 * i + j; N * N if none
firstEmpty(g) ==
    LET E == {k \in 0 .. (N * N - 1) : g[k \div N][k % N] = Empty}
    IN  IF E = {} THEN N * N ELSE CHOOSE k \in E : \A m \in E : k <= m

RECURSIVE solveInstant(_)
RECURSIVE tryDigits(_, _, _, _)

\* the digit loop without its b[i][j] = "." after a failed call
tryDigits_noRetract(g, i, j, chCode) ==
    IF chCode > LastCode THEN [ok |-> FALSE, b |-> g]
    ELSE LET ch == fromCharCode(chCode)
         IN  IF isValid(g, i, j, ch)
             THEN LET r == solveInstant(SetCell(g, i, j, ch))
                  IN  IF r.ok THEN r
                      ELSE tryDigits(r.b, i, j, chCode + 1)
             ELSE tryDigits(g, i, j, chCode + 1)

\* the digit loop counting down from "9"
tryDigits_descending(g, i, j, chCode) ==
    IF chCode > LastCode THEN [ok |-> FALSE, b |-> g]
    ELSE LET ch == fromCharCode(LastCode - (chCode - FirstCode))
         IN  IF isValid(g, i, j, ch)
             THEN LET r == solveInstant(SetCell(g, i, j, ch))
                  IN  IF r.ok THEN r
                      ELSE tryDigits(SetCell(r.b, i, j, Empty), i, j, chCode + 1)
             ELSE tryDigits(g, i, j, chCode + 1)

\* the digit loop of solveInstant at cell (i, j), from chCode on
tryDigits(g, i, j, chCode) ==
    IF chCode > LastCode THEN [ok |-> FALSE, b |-> g]
    ELSE LET ch == fromCharCode(chCode)
         IN  IF isValid(g, i, j, ch)
             THEN LET r == solveInstant(SetCell(g, i, j, ch))
                  IN  IF r.ok THEN r
                      ELSE tryDigits(SetCell(r.b, i, j, Empty), i, j, chCode + 1)
             ELSE tryDigits(g, i, j, chCode + 1)

\* the result and the grid as the call leaves it
solveInstant(g) ==
    LET k == firstEmpty(g)
    IN  IF k = N * N THEN [ok |-> TRUE, b |-> g]
        ELSE tryDigits(g, k \div N, k % N, FirstCode)

----------------------------------------------------------------------------
(* Input grids *)

\* a solved grid (the solution of the "Easy Puzzle" example)
SolvedRows ==
    << <<"5", "3", "4", "6", "7", "8", "9", "1", "2">>,
       <<"6", "7", "2", "1", "9", "5", "3", "4", "8">>,
       <<"1", "9", "8", "3", "4", "2", "5", "6", "7">>,
       <<"8", "5", "9", "7", "6", "1", "4", "2", "3">>,
       <<"4", "2", "6", "8", "5", "3", "7", "9", "1">>,
       <<"7", "1", "3", "9", "2", "4", "8", "5", "6">>,
       <<"9", "6", "1", "5", "3", "7", "2", "8", "4">>,
       <<"2", "8", "7", "4", "1", "9", "6", "3", "5">>,
       <<"3", "4", "5", "2", "8", "6", "1", "7", "9">> >>

SolvedGrid == FromRows(SolvedRows)

\* the cells in which the initial grids differ, and what they hold there
FreeCells == {<<2, 0>>, <<3, 5>>, <<3, 8>>, <<4, 5>>, <<4, 8>>}
FreeVals == {Empty, "1", "3"}

\* the cells the user types into after the initial state
EditCells == {<<2, 0>>, <<4, 8>>}

\* the grids typed in before the first modelled operation: SolvedGrid with
\* the free cells overwritten
InputGrids ==
    {[i \in Idx |-> [j \in Idx |->
        IF <<i, j>> \in FreeCells THEN f[<<i, j>>] ELSE SolvedGrid[i][j]]] :
     f \in [FreeCells -> FreeVals]}

\* what the user types into a cell (e.target.value), as its characters
RawInputs == {<<"1">>, <<"3">>, <<"x">>}

\* the values of the speed slider that are explored
SpeedVals == {MaxSpeed}

\* the "Invalid Puzzle (Test)" example
InvalidRows ==
    << <<"5", "5", ".", ".", ".", ".", ".", ".", ".">>,
       <<".", ".", ".", ".", ".", ".", ".", ".", ".">>,
       <<".", ".", ".", ".", ".", ".", ".", ".", ".">>,
       <<".", ".", ".", ".", ".", ".", ".", ".", ".">>,
       <<".", ".", ".", ".", ".", ".", ".", ".", ".">>,
       <<".", ".", ".", ".", ".", ".", ".", ".", ".">>,
       <<".", ".", ".", ".", ".", ".", ".", ".", ".">>,
       <<".", ".", ".", ".", ".", ".", ".", ".", ".">>,
       <<".", ".", ".", ".", ".", ".", ".", ".", ".">> >>

Examples == {InvalidRows}

----------------------------------------------------------------------------
(* The component *)

NoCall == [fn |-> "none"]

Init ==
    /\ board \in InputGrids
    /\ initial = emptyBoard
    /\ running = FALSE
    /\ speedMs = DefaultSpeed
    /\ highlight = Null
    /\ error = ""
    /\ success = FALSE
    /\ abort = FALSE
    /\ pc = "idle"
    /\ b = emptyBoard
    /\ startBoard = emptyBoard
    /\ stack = << >>
    /\ cSpeedMs = DefaultSpeed
    /\ timer = NoTimer
    /\ ops = 0
    /\ call = NoCall

\* a user event is handled only between tasks: when no search exists or the
\* search is suspended in delay()
AtRest == pc \in {"idle", "delayP", "delayR"}

UserOp ==
    /\ AtRest
    /\ ops < MaxOps
    /\ ops' = ops + 1
    /\ call' = call

\* value.replace(/[^1-9]/g, ""), on the characters of value
RECURSIVE joinChars(_)
joinChars(s) == IF s = << >> THEN "" ELSE Head(s) \o joinChars(Tail(s))
keepDigit(x) == x \in Digits
filterInput(value) == joinChars(SelectSeq(value, keepDigit))

handleChange(r, c, value) ==
    /\ UserOp
    /\ IF running
       THEN UNCHANGED <<board, error, success>>
       ELSE LET v == filterInput(value)
                newBoard == SetCell(cloneBoard(board), r, c,
                                    IF v = "" THEN Empty ELSE v)
            IN  /\ board' = newBoard
                /\ error' = ""
                /\ success' = FALSE
    /\ UNCHANGED <<initial, running, speedMs, highlight, abort>>
    /\ UNCHANGED runVars

resetToInitial ==
    /\ UserOp
    /\ IF running
       THEN UNCHANGED <<board, error, success>>
       ELSE /\ board' = cloneBoard(initial)
            /\ error' = ""
            /\ success' = FALSE
    /\ UNCHANGED <<initial, running, speedMs, highlight, abort>>
    /\ UNCHANGED runVars

clearBoard ==
    /\ UserOp
    /\ IF running
       THEN UNCHANGED <<board, initial, error, success>>
       ELSE /\ board' = emptyBoard
            /\ initial' = emptyBoard
            /\ error' = ""
            /\ success' = FALSE
    /\ UNCHANGED <<running, speedMs, highlight, abort>>
    /\ UNCHANGED runVars

\* the onLoad of an ExampleButton
loadExample(ex) ==
    /\ UserOp
    /\ LET g == FromRows(ex)
       IN  /\ board' = g
           /\ initial' = cloneBoard(g)
    /\ error' = ""
    /\ success' = FALSE
    /\ UNCHANGED <<running, speedMs, highlight, abort>>
    /\ UNCHANGED runVars

\* the onChange of the speed slider
setSpeedMs(ms) ==
    /\ UserOp
    /\ speedMs' = ms
    /\ UNCHANGED <<board, initial, running, highlight, error, success, abort>>
    /\ UNCHANGED runVars

onAbort ==
    /\ UserOp
    /\ running
    /\ abort' = TRUE
    /\ UNCHANGED <<board, initial, running, speedMs, highlight, error, success>>
    /\ UNCHANGED runVars

\* solveAnimated without its setRunning(true)
solveAnimatedStart_noRunning(sb) ==
    /\ abort' = FALSE
    /\ running' = running
    /\ error' = ""
    /\ success' = FALSE
    /\ b' = cloneBoard(sb)
    /\ startBoard' = sb
    /\ stack' = << >>
    /\ cSpeedMs' = speedMs
    /\ pc' = "enter"
\* solveAnimated up to its call of recurse()
solveAnimatedStart(sb) ==
    /\ abort' = FALSE
    /\ running' = TRUE
    /\ error' = ""
    /\ success' = FALSE
    /\ b' = cloneBoard(sb)
    /\ startBoard' = sb
    /\ stack' = << >>
    /\ cSpeedMs' = speedMs
    /\ pc' = "enter"

\* the empty cells of a grid
emptyCells(g) == {k \in 0 .. (N * N - 1) : g[k \div N][k % N] = Empty}

\* the searches that are explored: those of a board with at most MaxEmpty
\* empty cells
Explored(g) == Cardinality(emptyCells(g)) <= MaxEmpty

\* the handler without its `if (running) return`
onSolveAnimatedClick_noGuard ==
    /\ UserOp
    /\ LET validation == validateInitialBoard(cloneBoard(board))
       IN  IF ~validation.valid
           THEN /\ error' = validation.message
                /\ UNCHANGED <<board, initial, running, speedMs,
                               highlight, success, abort>>
                /\ UNCHANGED runVars
           ELSE /\ Explored(board)
                /\ initial' = cloneBoard(board)
                /\ solveAnimatedStart(cloneBoard(board))
                /\ UNCHANGED <<board, speedMs, highlight, timer>>

onSolveAnimatedClick ==
    /\ UserOp
    /\ IF running
       THEN /\ UNCHANGED uiVars
            /\ UNCHANGED runVars
       ELSE LET validation == validateInitialBoard(cloneBoard(board))
            IN  IF ~validation.valid
                THEN /\ error' = validation.message
                     /\ UNCHANGED <<board, initial, running, speedMs,
                                    highlight, success, abort>>
                     /\ UNCHANGED runVars
                ELSE /\ Explored(board)
                     /\ initial' = cloneBoard(board)
                     /\ solveAnimatedStart(cloneBoard(board))
                     /\ UNCHANGED <<board, speedMs, highlight, timer>>

onSolveInstantClick ==
    /\ UserOp
    /\ IF running
       THEN UNCHANGED uiVars
       ELSE LET validation == validateInitialBoard(cloneBoard(board))
            IN  IF ~validation.valid
                THEN /\ error' = validation.message
                     /\ UNCHANGED <<board, initial, running, speedMs,
                                    highlight, success, abort>>
                ELSE LET res == solveInstant(cloneBoard(board))
                     IN  IF ~Explored(board) THEN FALSE
                         ELSE IF res.ok
                         THEN /\ board' = res.b
                              /\ initial' = cloneBoard(board)
                              /\ success' = TRUE
                              /\ error' = ""
                              /\ UNCHANGED <<running, speedMs, highlight, abort>>
                         ELSE /\ error' = NoSolutionMessage
                              /\ UNCHANGED <<board, initial, running, speedMs,
                                             highlight, success, abort>>
    /\ UNCHANGED runVars

----------------------------------------------------------------------------
(* solveAnimated: recurse() as steps over the stack of its frames.  A frame *)
(* holds the locals i, j and chCode of one call that is inside its digit    *)
(* loop.                                                                    *)

Top == stack[Len(stack)]
Pop == SubSeq(stack, 1, Len(stack) - 1)
SearchStep == UNCHANGED <<ops, call, initial, running, speedMs, error,
                          success, abort, startBoard, cSpeedMs>>

\* the step event without its setBoard
emitAndDelay_noSnapshot(g, i, j, at) ==
    /\ highlight' = [r |-> i, c |-> j]
    /\ board' = board
    /\ timer' = cSpeedMs
    /\ pc' = at
\* the step event: setHighlight({r: i, c: j}); setBoard(cloneBoard(b));
\* then await delay(speedMs)
emitAndDelay(g, i, j, at) ==
    /\ highlight' = [r |-> i, c |-> j]
    /\ board' = cloneBoard(g)
    /\ timer' = cSpeedMs
    /\ pc' = at

\* the cancellation checks of recurse(): on entry, before each digit, and
\* after the recursive call has returned false
checkOnEntry == abort
checkBeforeDigit == abort
\* recurse() without its check after the recursive call
checkAfterCall_missing == FALSE
checkAfterCall == abort

\* a call of recurse() begins: the check on entry and the scan for the first
\* empty cell
recurseEnter ==
    /\ pc = "enter"
    /\ IF checkOnEntry
       THEN /\ pc' = "retF"
            /\ UNCHANGED stack
       ELSE LET k == firstEmpty(b)
            IN  IF k = N * N
                THEN /\ pc' = "retT"
                     /\ UNCHANGED stack
                ELSE /\ stack' = Append(stack,
                            [i |-> k \div N, j |-> k % N, chCode |-> FirstCode])
                     /\ pc' = "digit"
    /\ UNCHANGED <<board, highlight, b, timer>>
    /\ SearchStep

\* the digit loop entered one code late
nextValidCode_fromSecond(g, i, j, chCode) ==
    LET C == {c \in (chCode + 1) .. LastCode : isValid(g, i, j, fromCharCode(c))}
    IN  IF C = {} THEN LastCode + 1 ELSE CHOOSE c \in C : \A d \in C : c <= d
\* the digit loop placing without its isValid test
nextValidCode_noCheck(g, i, j, chCode) ==
    IF chCode > LastCode THEN LastCode + 1 ELSE chCode
\* the first code from chCode on whose digit isValid accepts at (i, j);
\* LastCode + 1 if the loop runs out
nextValidCode(g, i, j, chCode) ==
    LET C == {c \in chCode .. LastCode : isValid(g, i, j, fromCharCode(c))}
    IN  IF C = {} THEN LastCode + 1 ELSE CHOOSE c \in C : \A d \in C : c <= d

\* the digit loop of the innermost call, from its current code up to its
\* next placement or its return
digitLoop ==
    /\ pc = "digit"
    /\ LET f == Top
           c == nextValidCode(b, f.i, f.j, f.chCode)
       IN  IF f.chCode > LastCode
           THEN /\ stack' = Pop
                /\ pc' = "retF"
                /\ UNCHANGED <<board, highlight, b, timer>>
           ELSE IF checkBeforeDigit
           THEN /\ stack' = Pop
                /\ pc' = "retF"
                /\ UNCHANGED <<board, highlight, b, timer>>
           ELSE IF c <= LastCode
           THEN /\ b' = SetCell(b, f.i, f.j, fromCharCode(c))
                /\ emitAndDelay(b', f.i, f.j, "delayP")
                /\ stack' = [stack EXCEPT ![Len(stack)].chCode = c]
           ELSE /\ stack' = Pop
                /\ pc' = "retF"
                /\ UNCHANGED <<board, highlight, b, timer>>
    /\ SearchStep

\* the digit loop given up after its first retraction
timerFire_breakAfterRetract ==
    /\ pc \in {"delayP", "delayR"}
    /\ timer' = NoTimer
    /\ IF pc = "delayP"
       THEN /\ pc' = "enter"
            /\ UNCHANGED stack
       ELSE /\ pc' = "retF"
            /\ stack' = Pop
    /\ UNCHANGED <<board, highlight, b>>
    /\ SearchStep
\* the digit loop resumed on the digit it has just retracted
timerFire_sameDigit ==
    /\ pc \in {"delayP", "delayR"}
    /\ timer' = NoTimer
    /\ pc' = IF pc = "delayP" THEN "enter" ELSE "digit"
    /\ UNCHANGED <<board, highlight, b, stack>>
    /\ SearchStep
\* the timer of delay() expires and the search resumes
timerFire ==
    /\ pc \in {"delayP", "delayR"}
    /\ timer' = NoTimer
    /\ IF pc = "delayP"
       THEN /\ pc' = "enter"
            /\ UNCHANGED stack
       ELSE /\ pc' = "digit"
            /\ stack' = [stack EXCEPT ![Len(stack)].chCode = Top.chCode + 1]
    /\ UNCHANGED <<board, highlight, b>>
    /\ SearchStep

\* a call returned true to the call that awaits it
returnTrue ==
    /\ pc = "retT"
    /\ stack # << >>
    /\ stack' = Pop
    /\ UNCHANGED <<pc, board, highlight, b, timer>>
    /\ SearchStep

\* the retraction with its indices exchanged
returnFalse_swappedCell ==
    /\ pc = "retF"
    /\ stack # << >>
    /\ IF checkAfterCall
       THEN /\ stack' = Pop
            /\ UNCHANGED <<pc, board, highlight, b, timer>>
       ELSE /\ b' = SetCell(b, Top.j, Top.i, Empty)
            /\ emitAndDelay(b', Top.i, Top.j, "delayR")
            /\ UNCHANGED stack
    /\ SearchStep
\* a call returned false to the call that awaits it
returnFalse ==
    /\ pc = "retF"
    /\ stack # << >>
    /\ IF checkAfterCall
       THEN /\ stack' = Pop
            /\ UNCHANGED <<pc, board, highlight, b, timer>>
       ELSE /\ b' = SetCell(b, Top.i, Top.j, Empty)
            /\ emitAndDelay(b', Top.i, Top.j, "delayR")
            /\ UNCHANGED stack
    /\ SearchStep

\* the branch taken without the test of the flag
outcome_flagIgnored(solved) == IF solved THEN "solved" ELSE "unsolvable"
\* the branch that the end of solveAnimated takes
outcome(solved) ==
    IF abort THEN "aborted" ELSE IF solved THEN "solved" ELSE "unsolvable"

\* the Unsolvable branch without its setBoard
restoredBoard_notSet == board
\* the grid the Unsolvable branch displays: setBoard(cloneBoard(startBoard))
restoredBoard == cloneBoard(startBoard)

\* the outermost call returned: the rest of solveAnimated
finish ==
    /\ pc \in {"retT", "retF"}
    /\ stack = << >>
    /\ LET solved == (pc = "retT")
       IN  /\ running' = FALSE
           /\ highlight' = Null
           /\ IF outcome(solved) = "aborted"
              THEN /\ error' = AbortedMessage
                   /\ UNCHANGED <<success, board>>
              ELSE IF outcome(solved) = "solved"
              THEN /\ success' = TRUE
                   /\ UNCHANGED <<error, board>>
              ELSE /\ error' = NoSolutionMessage
                   /\ board' = restoredBoard
                   /\ UNCHANGED success
    /\ pc' = "idle"
    \* the invocation is over: its locals no longer exist
    /\ b' = emptyBoard
    /\ startBoard' = emptyBoard
    /\ cSpeedMs' = DefaultSpeed
    /\ UNCHANGED <<initial, speedMs, abort, stack, timer, ops, call>>

Next ==
    \/ \E cell \in EditCells : \E value \in RawInputs :
           handleChange(cell[1], cell[2], value)
    \/ resetToInitial
    \/ clearBoard
    \/ \E ex \in Examples : loadExample(ex)
    \/ \E ms \in SpeedVals : setSpeedMs(ms)
    \/ onAbort
    \/ onSolveAnimatedClick
    \/ onSolveInstantClick
    \/ recurseEnter
    \/ digitLoop
    \/ timerFire
    \/ returnTrue
    \/ returnFalse
    \/ finish

Spec == Init /\ [][Next]_vars

\* the steps of a running search: the continuations of recurse() and of
\* solveAnimated, and the expiry of the timer of delay()
SearchNext ==
    \/ recurseEnter
    \/ digitLoop
    \/ timerFire
    \/ returnTrue
    \/ returnFalse
    \/ finish

\* the event loop runs every continuation that is ready and every timer
\* that was set expires
SpecFair == Init /\ [][Next]_vars /\ WF_vars(SearchNext)

----------------------------------------------------------------------------
(* Direct calls of the pure functions, one call on each grid of Init *)

callIsValid(row, col, ch) ==
    /\ call = NoCall
    /\ call' = [fn |-> "isValid", row |-> row, col |-> col, ch |-> ch,
                result |-> isValid(board, row, col, ch)]
    /\ UNCHANGED <<uiVars, runVars, ops>>

callValidate ==
    /\ call = NoCall
    /\ call' = [fn |-> "validateInitialBoard",
                result |-> validateInitialBoard(board)]
    /\ UNCHANGED <<uiVars, runVars, ops>>

callSolveInstant ==
    /\ call = NoCall
    /\ Explored(board)
    /\ call' = [fn |-> "solveInstant", result |-> solveInstant(board)]
    /\ UNCHANGED <<uiVars, runVars, ops>>

NextPure ==
    \/ \E row \in Idx : \E col \in Idx : \E ch \in Digits :
           callIsValid(row, col, ch)
    \/ callValidate
    \/ callSolveInstant

SpecPure == Init /\ [][NextPure]_vars

----------------------------------------------------------------------------
(* The vocabulary of the properties *)

Cells == Idx \X Idx

\* the 27 constraint groups
RowGroup(r) == {<<r, y>> : y \in Idx}
ColGroup(c) == {<<x, c>> : x \in Idx}
BoxGroup(br, bc) ==
    {<<x, y>> \in Cells : x \div BoxN = br /\ y \div BoxN = bc}
Groups ==
    {RowGroup(r) : r \in Idx} \cup {ColGroup(c) : c \in Idx}
        \cup {BoxGroup(br, bc) : <<br, bc>> \in (0 .. 2) \X (0 .. 2)}

\* the groups a cell belongs to, as one set of cells
Peers(r, c) == RowGroup(r) \cup ColGroup(c) \cup BoxGroup(r \div BoxN, c \div BoxN)

\* d occurs in the row, the column or the box of (r, c), that cell included
Occurs(g, r, c, d) == \E p \in Peers(r, c) : g[p[1]][p[2]] = d

\* the value of a filled cell occurs at another cell of one of its groups
Clashes(g, r, c) ==
    /\ g[r][c] # Empty
    /\ \E p \in Peers(r, c) : p # <<r, c>> /\ g[p[1]][p[2]] = g[r][c]

NoDuplicates(g) == \A p \in Cells : ~Clashes(g, p[1], p[2])

\* the solved state: every group holds every digit
Solved(g) == \A G \in Groups : {g[p[1]][p[2]] : p \in G} = Digits

----------------------------------------------------------------------------
(* C1: isValid(G, r, c, d) is false exactly when d occurs in row r, in      *)
(* column c or in the box of (r, c), the cell (r, c) included, and true     *)
(* otherwise.                                                               *)
C1_IsValidIffAbsent ==
    call.fn = "isValid" =>
        (call.result = ~Occurs(board, call.row, call.col, call.ch))

\* a call that is rejected for the box alone: the digit is neither in the
\* row nor in the column
C1_Witness ==
    /\ call.fn = "isValid"
    /\ call.result = FALSE
    /\ \A p \in RowGroup(call.row) \cup ColGroup(call.col) :
           board[p[1]][p[2]] # call.ch

(* C2: as stated, for every grid, validated or not, on which solveInstant   *)
(* returns true, the grid it leaves is solved.                              *)
C2_SolvedWheneverTrue ==
    (call.fn = "solveInstant" /\ call.result.ok) => Solved(call.result.b)

(* C2, amended: for every grid without two equal non-empty values in a row, *)
(* a column or a box (every grid that passed validation is one) on which    *)
(* solveInstant returns true, the grid it leaves is solved.                 *)
C2_SolvedWhenNoDuplicates ==
    (call.fn = "solveInstant" /\ call.result.ok /\ NoDuplicates(board))
        => Solved(call.result.b)

\* a successful search that filled at least four cells
C2_Witness ==
    /\ call.fn = "solveInstant"
    /\ call.result.ok
    /\ NoDuplicates(board)
    /\ Cardinality(emptyCells(board)) >= 4
    /\ Solved(call.result.b)

----------------------------------------------------------------------------
\* the solved grids that extend g: every empty cell takes a digit that its
\* row, column and box do not hold yet
RECURSIVE Completions(_)
Completions(g) ==
    IF ~hasEmpty(g) THEN (IF Solved(g) THEN {g} ELSE {})
    ELSE LET k == CHOOSE e \in emptyCells(g) : TRUE
             r == k \div N
             c == k % N
         IN  UNION {Completions(SetCell(g, r, c, d)) :
                        d \in {x \in Digits : ~Occurs(g, r, c, x)}}

\* this step reports Unsolvable: the instant request, or the end of the
\* steppable search
ReportsUnsolvable ==
    /\ error' = NoSolutionMessage
    /\ \/ pc = "idle" /\ ops' # ops
       \/ pc # "idle" /\ pc' = "idle"

\* the grid that the reporting search was given
Searched == IF pc = "idle" THEN board ELSE startBoard

(* C3: a search of a validated grid reports Unsolvable (solveInstant false, *)
(* or solveAnimated ending un-cancelled with false) only if no assignment   *)
(* of digits to the empty cells gives a solved grid.                        *)
C3_UnsolvableOnlyIfNoCompletion ==
    [][ReportsUnsolvable =>
          (validateInitialBoard(Searched).valid /\ Completions(Searched) = {})]_vars

\* a steppable search about to report Unsolvable after it placed and
\* retracted
C3_Witness ==
    /\ pc = "retF"
    /\ stack = << >>
    /\ ~abort
    /\ highlight # Null
    /\ validateInitialBoard(startBoard).valid

----------------------------------------------------------------------------
----------------------------------------------------------------------------
\* the text of the duplicate message for 1-indexed positions
ExpectedDupText(v, row1, col1) ==
    "Invalid Sudoku: Duplicate " \o v \o " at row " \o ToString(row1)
        \o ", column " \o ToString(col1)

InvalidExample == FromRows(InvalidRows)

\* a solve request made on the Invalid Puzzle example
SolveRequestOnInvalidExample ==
    /\ board = InvalidExample
    /\ pc = "idle"
    /\ onSolveAnimatedClick \/ onSolveInstantClick

----------------------------------------------------------------------------
\* the filled cells whose value occurs elsewhere in one of their groups
ClashingCells(g) == {k \in 0 .. (N * N - 1) : Clashes(g, k \div N, k % N)}
FirstClash(g) ==
    CHOOSE k \in ClashingCells(g) : \A m \in ClashingCells(g) : k <= m

(* C6: when validation fails for a duplicate, the reported cell is the      *)
(* first filled cell in row-major order whose value occurs elsewhere in its *)
(* row, column or box, with row and column each increased by one and with   *)
(* that cell's value.                                                       *)
C6_FirstClashReported ==
    (call.fn = "validateInitialBoard" /\ ClashingCells(board) # {}) =>
        LET k == FirstClash(board)
        IN  /\ ~call.result.valid
            /\ call.result.message =
                   ExpectedDupText(board[k \div N][k % N],
                                   (k \div N) + 1, (k % N) + 1)

\* a rejected grid with several clashing cells, the first of them off the
\* diagonal
C6_Witness ==
    /\ call.fn = "validateInitialBoard"
    /\ Cardinality(ClashingCells(board)) >= 3
    /\ (FirstClash(board) \div N) # (FirstClash(board) % N)
    /\ ~call.result.valid

----------------------------------------------------------------------------
(* C7: a grid with a duplicate in some group and no empty cell is reported  *)
(* as a duplicate, never as already complete.                               *)
C7_DuplicateBeforeComplete ==
    (call.fn = "validateInitialBoard" /\ ~NoDuplicates(board)
        /\ emptyCells(board) = {}) =>
        /\ ~call.result.valid
        /\ call.result.message # CompleteMessage
        /\ \E p \in Cells : \E v \in Digits :
               call.result.message = ExpectedDupText(v, p[1] + 1, p[2] + 1)

\* the validator called on a full grid with a duplicate
C7_Witness ==
    /\ call.fn = "validateInitialBoard"
    /\ ~NoDuplicates(board)
    /\ emptyCells(board) = {}
    /\ ~call.result.valid

----------------------------------------------------------------------------
\* a solve request made on a board that validation rejects
RejectedSolveRequest ==
    /\ pc = "idle"
    /\ ~running
    /\ ops' # ops
    /\ ~validateInitialBoard(cloneBoard(board)).valid
    /\ onSolveAnimatedClick \/ onSolveInstantClick

(* C8: a solve request on a grid that fails validation starts no search and *)
(* mutates nothing: running stays false, board and initial are what they    *)
(* were, the grid handed to the validator equals its input when the         *)
(* validator returns, and error holds the validation message.               *)
C8_RejectedRequestMutatesNothing ==
    [][RejectedSolveRequest =>
          /\ running' = FALSE
          /\ pc' = "idle"
          /\ board' = board
          /\ initial' = initial
          /\ b' = b
          /\ validateInitialBoard(cloneBoard(board)).b = board
          /\ error' = validateInitialBoard(cloneBoard(board)).message
          /\ error' # ""]_vars

\* a duplicate was rejected while a different grid is saved for Reset
C8_Witness ==
    /\ pc = "idle"
    /\ ~running
    /\ ~NoDuplicates(board)
    /\ error = validateInitialBoard(board).message
    /\ initial # board

----------------------------------------------------------------------------
(* C9: if the cancellation flag is set while solveAnimated is running, that *)
(* invocation ends Aborted (error "Solving aborted by user"), never Solved  *)
(* (success set) nor Unsolvable ("No solution exists ..."), also when the   *)
(* working grid is complete or the search space exhausted at that moment.   *)
C9_AbortMonotonic ==
    [][(running /\ abort) =>
          \/ running' /\ abort'
          \/ ~running' /\ error' = AbortedMessage /\ ~success']_vars

\* the flag was set during the last delay: the cancelled search unwinds
\* with its working grid complete
C9_Witness ==
    /\ running
    /\ abort
    /\ pc = "retF"
    /\ stack = << >>
    /\ Solved(b)

----------------------------------------------------------------------------
(* C10: once the flag is set during a running steppable search, no cell of  *)
(* the working grid is placed or retracted, and no step event (highlight    *)
(* and board snapshot) is emitted, before the invocation ends.              *)
C10_NoWorkAfterAbort ==
    [][(running /\ abort) =>
          /\ b' = b \/ ~running'
          /\ highlight' = highlight \/ ~running'
          /\ board' = board \/ ops' # ops
          /\ pc' \notin {"delayP", "delayR"} \/ pc' = pc]_vars

\* a cancelled search unwinding through a frame whose placement stays
C10_Witness ==
    /\ running
    /\ abort
    /\ pc = "retF"
    /\ Len(stack) >= 2
    /\ b[Top.i][Top.j] # Empty

----------------------------------------------------------------------------
\* a step event: the search emits a snapshot and suspends
StepEvent ==
    /\ pc \notin {"delayP", "delayR"}
    /\ pc' \in {"delayP", "delayR"}

\* the outermost call of recurse() has returned and the flag is not set
UncancelledEnd ==
    /\ pc \in {"retT", "retF"}
    /\ stack = << >>
    /\ pc' = "idle"
    /\ ~abort

UniqueSolution(g) == Cardinality(Completions(g)) = 1

(* C11: for every validated grid with a unique solution, the steppable      *)
(* search run to its end without cancellation returns true with a working   *)
(* grid equal to the grid solveInstant leaves on the same input, which also *)
(* returns true; every snapshot emitted is the working grid at that moment  *)
(* and the working grid changes only with an emission, so the last snapshot *)
(* is that grid too.                                                        *)
C11_SameFinalGrid ==
    [][/\ StepEvent => board' = b'
       /\ (pc # "idle" /\ pc' # "idle" /\ b' # b) => StepEvent
       /\ (UncancelledEnd /\ validateInitialBoard(startBoard).valid
              /\ UniqueSolution(startBoard)) =>
              /\ pc = "retT"
              /\ success'
              /\ solveInstant(startBoard).ok
              /\ b = solveInstant(startBoard).b]_vars

\* the steppable search about to end solved on a grid with one solution and
\* at least four empty cells, the displayed board being its last snapshot
C11_Witness ==
    /\ pc = "retT"
    /\ stack = << >>
    /\ ~abort
    /\ Cardinality(emptyCells(startBoard)) >= 4
    /\ UniqueSolution(startBoard)
    /\ board = b
    /\ b = solveInstant(startBoard).b

----------------------------------------------------------------------------
\* the three outcomes as the component reports them
ReportedSolved == success' /\ error' = ""
ReportedUnsolvable == ~success' /\ error' = NoSolutionMessage
ReportedAborted == ~success' /\ error' = AbortedMessage

(* C12: an invocation of the steppable search goes Idle -> Running -> one   *)
(* of Solved, Unsolvable, Aborted -> Idle: running is true exactly from the *)
(* start of solveAnimated until recurse() has returned; the invocation ends *)
(* only then, reporting exactly one outcome (Aborted if the flag is set,    *)
(* else Solved if recurse() returned true, else Unsolvable), with running   *)
(* false and the highlight null.                                            *)
C12_Lifecycle ==
    [][/\ running = (pc # "idle")
       /\ running' = (pc' # "idle")
       /\ (pc = "idle" /\ pc' # "idle") => (pc' = "enter" /\ stack' = << >>)
       /\ (pc # "idle" /\ pc' = "idle") =>
              /\ pc \in {"retT", "retF"}
              /\ stack = << >>
              /\ running' = FALSE
              /\ highlight' = Null
              /\ ReportedAborted = abort
              /\ ReportedSolved = (~abort /\ pc = "retT")
              /\ ReportedUnsolvable = (~abort /\ pc = "retF")]_vars

\* back at Idle after an invocation that was cancelled part-way: a second
\* invocation can start from the board it left
C12_Witness ==
    /\ pc = "idle"
    /\ ~running
    /\ highlight = Null
    /\ error = AbortedMessage
    /\ validateInitialBoard(board).valid
    /\ board # initial

----------------------------------------------------------------------------
\* a steppable search starts
SearchStarts == pc = "idle" /\ pc' # "idle"

(* C13: on the Unsolvable outcome the board after the search is exactly the *)
(* grid that was on the board when the search was requested: the grid       *)
(* handed to solveAnimated is the board at the request and the board is set *)
(* back to it at the end; the instant request leaves the board as it was.   *)
C13_UnsolvableRestoresBoard ==
    [][/\ SearchStarts => (startBoard' = board /\ board' = board)
       /\ ReportsUnsolvable => board' = Searched]_vars

\* a steppable search about to report Unsolvable while the board shows
\* something else than the grid it was started on
C13_Witness ==
    /\ pc = "retF"
    /\ stack = << >>
    /\ ~abort
    /\ board # startBoard

----------------------------------------------------------------------------
\* the outermost call of recurse() has returned and the flag is set
CancelledEnd ==
    /\ pc \in {"retT", "retF"}
    /\ stack = << >>
    /\ pc' = "idle"
    /\ abort

(* C14: on the Aborted outcome the board is not restored: when the          *)
(* invocation ends, the displayed board equals the working grid as it stood *)
(* when the cancellation was observed, that is the snapshot of the last     *)
(* step event (the start grid if there was none).                           *)
C14_AbortedShowsWorkingGrid ==
    [][CancelledEnd => (board' = b /\ board' = board)]_vars

----------------------------------------------------------------------------
\* a solve request issued while a steppable search is running
SolveRequestWhileRunning ==
    /\ running
    /\ ops' # ops
    /\ onSolveAnimatedClick \/ onSolveInstantClick

(* C15: at most one search is active: a solve request, animated or instant, *)
(* issued while a steppable search is running starts no search and changes  *)
(* no state; a search starts only when none is running, and no user         *)
(* operation touches the locals of the running search.                      *)
C15_OneActiveSearch ==
    [][/\ SolveRequestWhileRunning => UNCHANGED <<uiVars, runVars>>
       /\ SearchStarts => ~running
       /\ (running /\ ops' # ops) =>
              (pc' = pc /\ b' = b /\ stack' = stack
                 /\ startBoard' = startBoard)]_vars

\* a search suspended after a retraction, with user operations issued
\* since the board was typed in and none of them having left a trace
C15_Witness ==
    /\ running
    /\ pc = "delayR"
    /\ ops = MaxOps
    /\ ~abort
    /\ speedMs = DefaultSpeed
    /\ board = b
    /\ initial = startBoard

----------------------------------------------------------------------------
\* an instant solve of a validated grid ends (it ends in the step it is
\* requested in)
InstantSolveEnds ==
    /\ pc = "idle"
    /\ ops' # ops
    /\ success' \/ error' = NoSolutionMessage
    /\ ~running
    /\ validateInitialBoard(cloneBoard(board)).valid
    /\ onSolveInstantClick

\* a steppable search ends
AnimatedSolveEnds == pc # "idle" /\ pc' = "idle"

(* C16: after a solve, instant or animated, of a validated grid has ended,  *)
(* whatever its outcome, resetToInitial sets the board to exactly the grid  *)
(* that was on the board when the solve was requested: Reset displays the   *)
(* saved initial grid, and when a solve ends the saved initial grid is the  *)
(* grid of the request.                                                     *)
C16_ResetGivesRequestedGrid ==
    [][/\ (~running /\ resetToInitial) => board' = initial
       /\ InstantSolveEnds => initial' = board
       /\ AnimatedSolveEnds => initial' = startBoard]_vars

----------------------------------------------------------------------------
\* an invocation has ended and its outcome is on display
Ended ==
    /\ ~running
    /\ pc = "idle"
    /\ success \/ error = NoSolutionMessage \/ error = AbortedMessage

(* C18: every steppable search of a validated grid terminates: given that   *)
(* every suspension is eventually resumed by the timer, a running search    *)
(* eventually ends Solved, Unsolvable or Aborted.  (The synchronous solve   *)
(* is one step of the model; its result is computed for every grid on which *)
(* it is requested.)                                                        *)
C18_SearchTerminates == running ~> Ended

\* Idle after a steppable search that ran to the exhaustion of its search
\* space: the grid it was requested on is saved and displayed
C18_Witness ==
    /\ pc = "idle"
    /\ error = NoSolutionMessage
    /\ initial = board
    /\ ops = 1
    /\ Cardinality(emptyCells(board)) >= 3

----------------------------------------------------------------------------
\* the cells in which two grids differ
Diff(g, h) == {p \in Cells : g[p[1]][p[2]] # h[p[1]][p[2]]}

\* a step of the running search that is neither its start nor its end
InsideSearch == pc # "idle" /\ pc' # "idle" /\ ops' = ops

(* C19: in the steppable search every placement and every retraction, and   *)
(* nothing else, emits one step event, right after the write and before the *)
(* suspension: the step that writes the working grid writes one cell, sets  *)
(* the highlight to that cell and the board to the working grid as written, *)
(* and suspends; as the working grid changes in no other step, consecutive  *)
(* snapshots differ in exactly that cell.  A step of the search that writes *)
(* no cell emits nothing.                                                   *)
C19_OneEventPerWrite ==
    [][InsideSearch =>
          /\ (b' # b) = StepEvent
          /\ StepEvent =>
                 /\ Diff(b, b') = {<<highlight'.r, highlight'.c>>}
                 /\ board' = b'
                 /\ timer' = cSpeedMs
                 /\ (pc' = "delayP") = (b[highlight'.r][highlight'.c] = Empty)
                 /\ (pc' = "delayR") = (b'[highlight'.r][highlight'.c] = Empty)
          /\ ~StepEvent =>
                 /\ highlight' = highlight
                 /\ board' = board]_vars

\* suspended after a retraction whose event is on display: the highlighted
\* cell is empty again while an enclosing frame's placement stays
C19_Witness ==
    /\ pc = "delayR"
    /\ Len(stack) >= 2
    /\ highlight = [r |-> Top.i, c |-> Top.j]
    /\ board = b
    /\ b[Top.i][Top.j] = Empty
    /\ b[stack[1].i][stack[1].j] # Empty

----------------------------------------------------------------------------
(* C20: the steppable search writes only to its own working copy:           *)
(* throughout a run the grid passed to solveAnimated (startBoard) and the   *)
(* saved initial grid stay equal to the grid that was on the board when the *)
(* search was requested.                                                    *)
C20_RunLeavesInputsAlone ==
    [][/\ SearchStarts => (startBoard' = board /\ initial' = board)
       /\ (running /\ running') =>
              (startBoard' = startBoard /\ initial' = initial)]_vars

----------------------------------------------------------------------------
(* C21: each suspension of a running steppable search lasts the interval    *)
(* configured at the time the suspension begins: the timer set by a step    *)
(* event runs for the current speedMs, so a change of speedMs made during a *)
(* run applies to the suspensions that follow it.                           *)
C21_DelayIsCurrentSpeed ==
    [][StepEvent => timer' = speedMs]_vars

----------------------------------------------------------------------------
(* C22: while a steppable search is running, board and initial change only  *)
(* through the step events of that search: every user operation (cell edit, *)
(* Reset, Clear, loading an example, a solve request, Abort) leaves board   *)
(* and initial unchanged until the search has ended.                        *)
C22_UserOpsFrozenWhileRunning ==
    [][(running /\ ops' # ops) =>
          (board' = board /\ initial' = initial)]_vars

----------------------------------------------------------------------------
\* the first empty cell of the grid of the call takes some digit, so the
\* search of the call makes a placement
CallPlaces ==
    LET k == firstEmpty(board)
    IN  /\ k < N * N
        /\ \E d \in Digits : isValid(board, k \div N, k % N, d)

(* C23: when solveInstant returns false, the grid it leaves is cell for     *)
(* cell the grid it received: every placement of the failed search has been *)
(* retracted when the root call returns.                                    *)
C23_FailedSolveRestoresGrid ==
    (call.fn = "solveInstant" /\ ~call.result.ok) => call.result.b = board

\* a failed search that made placements on a grid with three or more empty
\* cells
C23_Witness ==
    /\ call.fn = "solveInstant"
    /\ ~call.result.ok
    /\ Cardinality(emptyCells(board)) >= 3
    /\ CallPlaces
    /\ call.result.b = board

----------------------------------------------------------------------------
\* every cell that g fills holds the same value in h
Keeps(g, h) ==
    \A p \in Cells : g[p[1]][p[2]] # Empty => h[p[1]][p[2]] = g[p[1]][p[2]]

\* the instant request that succeeds: the only user operation that sets
\* success
InstantSolved ==
    /\ pc = "idle"
    /\ ops' # ops
    /\ success'
    /\ board' # board

(* C24: givens are preserved in both variants: a cell that is non-empty in  *)
(* the input grid keeps its value in every working grid of the steppable    *)
(* search, in every step-event snapshot and in the final grid of either     *)
(* search; a write of the search changes a cell that is empty in the input. *)
C24_GivensPreserved ==
    [][/\ pc' # "idle" => Keeps(startBoard', b')
       /\ StepEvent =>
              /\ Keeps(startBoard, board')
              /\ \A p \in Diff(b, b') : startBoard[p[1]][p[2]] = Empty
       /\ (pc # "idle" /\ pc' = "idle") => Keeps(startBoard, b)
       /\ InstantSolved => Keeps(board, board')]_vars

\* suspended after a retraction below a placement that stays, every given
\* in place in the working grid and in the snapshot on display
C24_Witness ==
    /\ pc = "delayR"
    /\ Len(stack) >= 2
    /\ b # startBoard
    /\ Keeps(startBoard, b)
    /\ Keeps(startBoard, board)
    /\ board = b

----------------------------------------------------------------------------
(* C25: for a search started on a validated grid, every working grid of the *)
(* steppable search, hence every step-event snapshot and the working grid   *)
(* left when the search is cancelled, has no two equal non-empty values in  *)
(* a row, a column or a box.                                                *)
C25_WorkingGridConsistent ==
    [][/\ SearchStarts =>
              (validateInitialBoard(startBoard').valid /\ NoDuplicates(b'))
       /\ StepEvent => (NoDuplicates(b') /\ NoDuplicates(board'))
       /\ (InsideSearch /\ ~StepEvent) => b' = b
       /\ CancelledEnd => NoDuplicates(b)]_vars

\* a cancelled search about to end with three or more placements in place
C25_Witness ==
    /\ pc = "retF"
    /\ stack = << >>
    /\ abort
    /\ Cardinality(Diff(startBoard, b)) >= 3
    /\ hasEmpty(b)
    /\ NoDuplicates(b)

----------------------------------------------------------------------------
(* C26: in every reachable state of the component, after any sequence of    *)
(* edits, example loads, resets, clears, solve requests and aborts, success *)
(* being set implies that the displayed board is a solved grid.             *)
C26_SuccessMeansSolved == success => Solved(board)

----------------------------------------------------------------------------
(* C27: in every reachable state of the component, after any sequence of    *)
(* user operations, success and a non-empty error message are never set at  *)
(* the same time.                                                           *)
C27_SuccessExcludesError == ~(success /\ error # "")

----------------------------------------------------------------------------
\* the empty cells of the grid of the call, in row-major order, at which
\* two completions differ
DiffAt(g, h) ==
    {k \in emptyCells(board) : g[k \div N][k % N] # h[k \div N][k % N]}

\* the order of the digit characters
DigitOf(ch) == CHOOSE k \in 1 .. 9 : DigitChars[k] = ch

\* g is not above h in the lexicographic order of the initially empty cells
LexLeq(g, h) ==
    \/ DiffAt(g, h) = {}
    \/ LET k == CHOOSE x \in DiffAt(g, h) : \A y \in DiffAt(g, h) : x <= y
       IN  DigitOf(g[k \div N][k % N]) < DigitOf(h[k \div N][k % N])

(* C28: when a validated grid has at least one solution, the grid the       *)
(* search returns is the lexicographically least solution: reading the      *)
(* initially empty cells in row-major order, no other completion has a      *)
(* smaller digit at the first cell where the two differ.                    *)
C28_LeastSolution ==
    (call.fn = "solveInstant" /\ validateInitialBoard(board).valid
        /\ Completions(board) # {}) =>
        /\ call.result.ok
        /\ call.result.b \in Completions(board)
        /\ \A h \in Completions(board) : LexLeq(call.result.b, h)

\* a search of a grid with two solutions that returned the lower one
C28_Witness ==
    /\ call.fn = "solveInstant"
    /\ validateInitialBoard(board).valid
    /\ Cardinality(Completions(board)) >= 2
    /\ call.result.ok
    /\ \A h \in Completions(board) : LexLeq(call.result.b, h)

====
